---------------------------- MODULE Spec2Model ----------------------------
(***************************************************************************)
(* Model of the string / path helpers of nxdumptool's nxdt_utils.c:        *)
(*   utilsReplaceIllegalCharacters, utilsGetUtf8StringLimit and            *)
(*   utilsGeneratePath, together with the UTF-8 decoder they call.         *)
(*                                                                         *)
(* A C string is a sequence of bytes 1..255; a buffer is a sequence of     *)
(* bytes 0..255 that holds a NUL terminator.  Pointers into a buffer are   *)
(* 0-based offsets, the null pointer is NULL.                              *)
(***************************************************************************)
EXTENDS Integers, Sequences, FiniteSets, TLC

NULL == -1

NT_MAX_FILENAME_LENGTH == 255

FS_MAX_PATH == 769

Slash == 47

Underscore == 95

\* g_illegalFileSystemChars: \ / : * ? " < > |
g_illegalFileSystemChars == <<92, 47, 58, 42, 63, 34, 60, 62, 124>>

g_illegalFileSystemCharsLength == Len(g_illegalFileSystemChars)

(***************************************************************************)
(* Buffers.                                                                *)
(***************************************************************************)

\* The byte at 0-based offset i (a read of buf[i] in C).  Offsets past the
\* modelled buffer read as NUL; the code never reads past a terminator.
ByteAt(buf, i) == IF i >= 0 /\ i < Len(buf) THEN buf[i + 1] ELSE 0

\* strlen(): the offset of the first NUL.
strlen(buf) ==
    IF \E i \in 1..Len(buf) : buf[i] = 0
    THEN (CHOOSE i \in 1..Len(buf) :
              buf[i] = 0 /\ \A j \in 1..(i - 1) : buf[j] # 0) - 1
    ELSE Len(buf)

\* The C string a NUL-terminated buffer holds.
CString(buf) == SubSeq(buf, 1, strlen(buf))

\* memmove(buf + dst, buf + src, n): every byte is read before any is written.
memmove(buf, dst, src, n) ==
    [i \in 1..Len(buf) |->
        IF i - 1 >= dst /\ i - 1 < dst + n THEN buf[(i - 1) - dst + src + 1]
        ELSE buf[i]]

\* strchr(buf + from, c) for c # NUL: the offset of the first c at or after
\* from and before the terminator, NULL when there is none.
strchr(buf, from, c) ==
    LET stop == {i \in from..(Len(buf) - 1) : buf[i + 1] = c \/ buf[i + 1] = 0}
        first == CHOOSE i \in stop : \A j \in stop : i <= j
    IN  IF stop = {} THEN NULL
        ELSE IF buf[first + 1] = c THEN first ELSE NULL

(***************************************************************************)
(* decode_utf8(&code, in): one codepoint from the bytes at offset pos.     *)
(* units = -1 reports a malformed sequence (code is then not written).     *)
(***************************************************************************)
IsContinuation(b) == b >= 128 /\ b < 192

Invalid == [units |-> -1, code |-> 0]

decode_utf8(buf, pos) ==
    LET code1 == ByteAt(buf, pos)
        code2 == ByteAt(buf, pos + 1)
        code3 == ByteAt(buf, pos + 2)
        code4 == ByteAt(buf, pos + 3)
    IN  IF code1 < 128 THEN [units |-> 1, code |-> code1]
        ELSE IF code1 < 194 THEN Invalid
        ELSE IF code1 < 224 THEN
            IF ~IsContinuation(code2) THEN Invalid
            ELSE [units |-> 2, code |-> code1 * 64 + code2 - 12416]
        ELSE IF code1 < 240 THEN
            IF ~IsContinuation(code2) THEN Invalid
            ELSE IF code1 = 224 /\ code2 < 160 THEN Invalid
            ELSE IF ~IsContinuation(code3) THEN Invalid
            ELSE [units |-> 3,
                  code |-> code1 * 4096 + code2 * 64 + code3 - 925824]
        ELSE IF code1 < 245 THEN
            IF ~IsContinuation(code2) THEN Invalid
            ELSE IF code1 = 240 /\ code2 < 144 THEN Invalid
            ELSE IF code1 = 244 /\ code2 >= 144 THEN Invalid
            ELSE IF ~IsContinuation(code3) THEN Invalid
            ELSE IF ~IsContinuation(code4) THEN Invalid
            ELSE [units |-> 4,
                  code |-> code1 * 262144 + code2 * 4096 + code3 * 64 + code4
                           - 63447168]
        ELSE Invalid

(***************************************************************************)
(* utilsReplaceIllegalCharacters(str, ascii_only)                          *)
(***************************************************************************)

\* memchr(g_illegalFileSystemChars, (int)code, length): memchr compares its
\* int argument converted to unsigned char.
memchr_illegal(code) ==
    \E k \in 1..g_illegalFileSystemCharsLength :
        g_illegalFileSystemChars[k] = code % 256

\* U+007F is let through when only ASCII is wanted.
IsIllegalCodeAboveDel(code, ascii_only) ==
    \/ memchr_illegal(code)
    \/ code < 32
    \/ (~ascii_only /\ code = 127)
    \/ (ascii_only /\ code > 127)

\* The condition of the if statement that replaces a codepoint.
IsIllegalCode(code, ascii_only) ==
    \/ memchr_illegal(code)
    \/ code < 32
    \/ (~ascii_only /\ code = 127)
    \/ (ascii_only /\ code >= 127)

\* A legal codepoint that is copied without the memmove.
CopyCodepointNoMove(buf, ptr2, ptr1, units) == buf

\* if (ptr2 != ptr1) memmove(ptr2, ptr1, units)
CopyCodepoint(buf, ptr2, ptr1, units) ==
    IF ptr2 # ptr1 THEN memmove(buf, ptr2, ptr1, units) ELSE buf

\* The loop body going round again, where it was, after a decode failure.
ReplaceStepNoBreak(st, ascii_only) ==
    LET d == decode_utf8(st.buf, st.ptr1)
    IN  IF d.units < 0 THEN st
        ELSE IF IsIllegalCode(d.code, ascii_only)
        THEN [st EXCEPT !.buf = [st.buf EXCEPT ![st.ptr2 + 1] = Underscore],
                        !.ptr2 = st.ptr2 + 1,
                        !.ptr1 = st.ptr1 + d.units,
                        !.cur_pos = st.cur_pos + d.units]
        ELSE [st EXCEPT !.buf = CopyCodepoint(st.buf, st.ptr2, st.ptr1,
                                              d.units),
                        !.ptr2 = st.ptr2 + d.units,
                        !.ptr1 = st.ptr1 + d.units,
                        !.cur_pos = st.cur_pos + d.units]

\* One iteration of the while loop: st = [buf, ptr1, ptr2, cur_pos, brk].
ReplaceStep(st, ascii_only) ==
    LET d == decode_utf8(st.buf, st.ptr1)
    IN  IF d.units < 0 THEN [st EXCEPT !.brk = TRUE]
        ELSE IF IsIllegalCode(d.code, ascii_only)
        THEN [st EXCEPT !.buf = [st.buf EXCEPT ![st.ptr2 + 1] = Underscore],
                        !.ptr2 = st.ptr2 + 1,
                        !.ptr1 = st.ptr1 + d.units,
                        !.cur_pos = st.cur_pos + d.units]
        ELSE [st EXCEPT !.buf = CopyCodepoint(st.buf, st.ptr2, st.ptr1,
                                              d.units),
                        !.ptr2 = st.ptr2 + d.units,
                        !.ptr1 = st.ptr1 + d.units,
                        !.cur_pos = st.cur_pos + d.units]

RECURSIVE ReplaceLoop(_, _, _)
ReplaceLoop(st, str_size, ascii_only) ==
    IF st.cur_pos < str_size /\ ~st.brk
    THEN ReplaceLoop(ReplaceStep(st, ascii_only), str_size, ascii_only)
    ELSE st

\* The filter without its final *ptr2 = '\0'.
utilsReplaceIllegalCharactersNoTerminator(str, ascii_only) ==
    LET st0 == [buf |-> str \o <<0>>, ptr1 |-> 0, ptr2 |-> 0, cur_pos |-> 0,
                brk |-> FALSE]
    IN  IF Len(str) = 0 THEN str
        ELSE CString(ReplaceLoop(st0, Len(str), ascii_only).buf)

\* The string left in the caller's buffer.
utilsReplaceIllegalCharacters(str, ascii_only) ==
    LET str_size == Len(str)
        st0 == [buf |-> str \o <<0>>, ptr1 |-> 0, ptr2 |-> 0, cur_pos |-> 0,
                brk |-> FALSE]
        st == ReplaceLoop(st0, str_size, ascii_only)
    IN  IF str_size = 0 THEN str
        ELSE CString([st.buf EXCEPT ![st.ptr2 + 1] = 0])

(***************************************************************************)
(* utilsGetUtf8StringLimit(str, str_size, byte_limit), str = buf + base.   *)
(***************************************************************************)

\* The loop body recording every codepoint end, whether below the limit or not.
LimitStepAlwaysRecord(buf, base, str_size, byte_limit, st) ==
    LET d == decode_utf8(buf, base + st.cur_pos)
        new_pos == st.cur_pos + d.units
    IN  IF d.units < 0 \/ d.code = 0 \/ new_pos > str_size
        THEN [st EXCEPT !.brk = TRUE]
        ELSE [st EXCEPT !.cur_pos = new_pos, !.last_cp_pos = new_pos]

\* The loop body recording a codepoint end that lands on the limit.
LimitStepInclusive(buf, base, str_size, byte_limit, st) ==
    LET d == decode_utf8(buf, base + st.cur_pos)
        new_pos == st.cur_pos + d.units
    IN  IF d.units < 0 \/ d.code = 0 \/ new_pos > str_size
        THEN [st EXCEPT !.brk = TRUE]
        ELSE [st EXCEPT !.cur_pos = new_pos,
                        !.last_cp_pos = IF new_pos <= byte_limit THEN new_pos
                                        ELSE st.last_cp_pos]

\* The loop body stepping over a malformed byte instead of leaving the loop.
LimitStepSkipInvalid(buf, base, str_size, byte_limit, st) ==
    LET d == decode_utf8(buf, base + st.cur_pos)
        new_pos == st.cur_pos + (IF d.units < 0 THEN 1 ELSE d.units)
    IN  IF new_pos > str_size
        THEN [st EXCEPT !.brk = TRUE]
        ELSE [st EXCEPT !.cur_pos = new_pos,
                        !.last_cp_pos = IF new_pos < byte_limit THEN new_pos
                                        ELSE st.last_cp_pos]

\* One iteration of the while loop: st = [cur_pos, last_cp_pos, brk].
LimitStep(buf, base, str_size, byte_limit, st) ==
    LET d == decode_utf8(buf, base + st.cur_pos)
        new_pos == st.cur_pos + d.units
    IN  IF d.units < 0 \/ d.code = 0 \/ new_pos > str_size
        THEN [st EXCEPT !.brk = TRUE]
        ELSE [st EXCEPT !.cur_pos = new_pos,
                        !.last_cp_pos = IF new_pos < byte_limit THEN new_pos
                                        ELSE st.last_cp_pos]

\* The loop's test, then its body: a loop that has ended leaves st alone.
LimitIter(buf, base, str_size, byte_limit, st) ==
    IF st.cur_pos < str_size /\ st.cur_pos < byte_limit /\ ~st.brk
    THEN LimitStep(buf, base, str_size, byte_limit, st)
    ELSE st

\* n rounds of the while loop, the first half before the second.
RECURSIVE LimitLoop(_, _, _, _, _, _)
LimitLoop(buf, base, str_size, byte_limit, st, n) ==
    IF n = 0 THEN st
    ELSE IF n = 1 THEN LimitIter(buf, base, str_size, byte_limit, st)
    ELSE LET mid == LimitLoop(buf, base, str_size, byte_limit, st, n \div 2)
         IN  IF mid.brk THEN mid
             ELSE LimitLoop(buf, base, str_size, byte_limit, mid,
                            n - (n \div 2))

\* Every iteration that does not break advances cur_pos by at least one, so
\* the loop has ended after byte_limit rounds.
utilsGetUtf8StringLimit(buf, base, str_size, byte_limit) ==
    IF ByteAt(buf, base) = 0 \/ str_size = 0 \/ byte_limit = 0 THEN 0
    ELSE IF byte_limit > str_size THEN str_size
    ELSE LimitLoop(buf, base, str_size, byte_limit,
                   [cur_pos |-> 0, last_cp_pos |-> 0, brk |-> FALSE],
                   byte_limit).last_cp_pos

(***************************************************************************)
(* utilsGeneratePath(prefix, filename, extension)                          *)
(* An absent (NULL) and an empty string argument are both <<>>: the code   *)
(* tests (prefix && *prefix), (extension && *extension), and rejects       *)
(* (!filename || !*filename).                                              *)
(***************************************************************************)

\* The path is left without its new terminator.
TerminateMissing(path, path_len) == path

\* path[path_len] = '\0'
Terminate(path, path_len) == [path EXCEPT ![path_len + 1] = 0]

\* The arguments of the memmove that truncates an element before the last.
TruncateMove(path_len, ptr1, ptr2, last_cp_pos) ==
    [dst |-> ptr1 + last_cp_pos, src |-> ptr2, n |-> path_len - ptr2]

\* The arguments of the memmove that keeps the extension.
SpliceMove(ptr1, element_size, last_cp_pos, extension_len) ==
    [dst |-> ptr1 + last_cp_pos - extension_len,
     src |-> ptr1 + element_size - extension_len,
     n |-> extension_len]

NoMove == [dst |-> 0, src |-> 0, n |-> 0]

\* The separator behind the truncated element is not moved along.
TruncateElementDropsSeparator(path, path_len, ptr1, ptr2, last_cp_pos) ==
    memmove(path, ptr1 + last_cp_pos, ptr2 + 1, path_len - ptr2 - 1)

\* The memmove that closes the gap behind a truncated element which is not
\* the last one: the rest of the path, from the next separator on, moves to
\* the truncation point.
\* memmove(ptr1 + last_cp_pos, ptr2, path_len - (ptr2 - path))
TruncateElement(path, path_len, ptr1, ptr2, last_cp_pos) ==
    LET m == TruncateMove(path_len, ptr1, ptr2, last_cp_pos)
    IN  memmove(path, m.dst, m.src, m.n)

\* The extension left where the cut removes it.
SpliceExtensionMissing(path, ptr1, element_size, last_cp_pos, extension_len) ==
    path

\* The memmove that preserves the extension of a truncated last element.
SpliceExtension(path, ptr1, element_size, last_cp_pos, extension_len) ==
    LET m == SpliceMove(ptr1, element_size, last_cp_pos, extension_len)
    IN  memmove(path, m.dst, m.src, m.n)

\* The extension is taken to fit although it fills the whole element.
ExtensionCheckStrict(extension_len, last_cp_pos) ==
    extension_len > last_cp_pos

\* if (extension_len >= last_cp_pos): the extension leaves no room for any
\* byte of the truncated element.
ExtensionCheck(extension_len, last_cp_pos) ==
    extension_len >= last_cp_pos

\* The body of the while(ptr1) loop below the call that measures the
\* element: the truncation of an element of element_size bytes at ptr1 whose
\* UTF-8 limit is last_cp_pos.
\* st = [path, path_len, ptr1, ptr2, failed, brk, log]; log is a history of
\* the elements visited: where each started, its size, its bytes when it was
\* measured, its UTF-8 limit, the memmove made for it (n = 0 for none) and
\* path_len before and after.
PathStepAt(st, filename_only, use_extension, extension_len, ptr1, ptr2, element_size, last_cp_pos) ==
    LET removed == element_size - last_cp_pos
        new_len == st.path_len - removed
        cut == last_cp_pos < element_size
        ext_fail == /\ cut /\ ptr2 = NULL /\ use_extension
                    /\ ExtensionCheck(extension_len, last_cp_pos)
        entry == [ptr1 |-> ptr1, element_size |-> element_size,
                  elem |-> SubSeq(st.path, ptr1 + 1, ptr1 + element_size),
                  last_cp_pos |-> last_cp_pos, last |-> (ptr2 = NULL),
                  move |-> IF ~cut \/ ext_fail THEN NoMove
                           ELSE IF ptr2 # NULL
                           THEN TruncateMove(st.path_len, ptr1, ptr2,
                                             last_cp_pos)
                           ELSE IF use_extension
                           THEN SpliceMove(ptr1, element_size, last_cp_pos,
                                           extension_len)
                           ELSE NoMove,
                  len_before |-> st.path_len,
                  len_after |-> IF ~cut \/ ext_fail THEN st.path_len
                                ELSE new_len]
        log == Append(st.log, entry)
    IN  IF cut
        THEN IF ptr2 # NULL
             THEN [st EXCEPT
                     !.path = Terminate(
                                TruncateElement(st.path, st.path_len, ptr1,
                                                ptr2, last_cp_pos),
                                new_len),
                     !.path_len = new_len,
                     !.ptr1 = ptr2 - removed,
                     !.ptr2 = ptr2 - removed,
                     !.log = log]
             ELSE IF use_extension
             THEN IF ExtensionCheck(extension_len, last_cp_pos)
                  THEN [st EXCEPT !.failed = TRUE, !.log = log]
                  ELSE [st EXCEPT
                          !.path = Terminate(
                                     SpliceExtension(st.path, ptr1,
                                                     element_size, last_cp_pos,
                                                     extension_len),
                                     new_len),
                          !.path_len = new_len,
                          !.ptr1 = ptr2,
                          !.ptr2 = ptr2,
                          !.log = log]
             ELSE [st EXCEPT !.path = Terminate(st.path, new_len),
                             !.path_len = new_len,
                             !.ptr1 = ptr2,
                             !.ptr2 = ptr2,
                             !.log = log]
        ELSE [st EXCEPT !.ptr1 = ptr2, !.ptr2 = ptr2, !.log = log]

\* One iteration of the while(ptr1) loop: the break at the end of the string,
\* the element's bounds, and its UTF-8 limit, which is computed once (the
\* only member of the set below) and handed to the rest of the body.
PathStep(st, filename_only, use_extension, extension_len) ==
    LET ptr1 == IF filename_only THEN st.ptr1 ELSE st.ptr1 + 1
        ptr2 == IF filename_only THEN st.ptr2
                ELSE strchr(st.path, ptr1, Slash)
        element_size == IF ptr2 # NULL THEN ptr2 - ptr1
                        ELSE st.path_len - ptr1
    IN  IF ~filename_only /\ ByteAt(st.path, st.ptr1) = 0
        THEN [st EXCEPT !.brk = TRUE]
        ELSE CHOOSE next \in
                 {PathStepAt(st, filename_only, use_extension, extension_len,
                             ptr1, ptr2, element_size, last_cp_pos) :
                    last_cp_pos \in
                        {utilsGetUtf8StringLimit(st.path, ptr1, element_size,
                                                 NT_MAX_FILENAME_LENGTH)}} :
                 TRUE

RECURSIVE PathLoop(_, _, _, _)
PathLoop(st, filename_only, use_extension, extension_len) ==
    IF st.ptr1 # NULL /\ ~st.failed /\ ~st.brk
    THEN PathLoop(PathStep(st, filename_only, use_extension, extension_len),
                  filename_only, use_extension, extension_len)
    ELSE st

\* A separator is put behind every prefix, whatever its last byte.
AppendPathSepAlways(prefix) == prefix # <<>>

\* bool append_path_sep = (use_prefix && prefix[prefix_len - 1] != '/')
AppendPathSep(prefix) == prefix # <<>> /\ prefix[Len(prefix)] # Slash

\* utilsGeneratePath from the allocation to the head of the while loop: the
\* loop's first state and the three values the loop reads.
GeneratePathSetup(prefix, filename, extension) ==
    LET use_prefix == prefix # <<>>
        prefix_len == IF use_prefix THEN Len(prefix) ELSE 0
        append_path_sep == AppendPathSep(prefix)
        use_extension == extension # <<>>
        extension_len == IF use_extension THEN Len(extension) ELSE 0
        path_len == prefix_len + Len(filename) + extension_len
                    + (IF append_path_sep THEN 1 ELSE 0)
        path == (IF use_prefix THEN prefix ELSE <<>>)
                \o (IF append_path_sep THEN <<Slash>> ELSE <<>>)
                \o filename
                \o (IF use_extension THEN extension ELSE <<>>)
                \o <<0>>
        first == strchr(path, 0, Slash)
        filename_only == first = NULL
    IN  [st |-> [path |-> path, path_len |-> path_len,
                 ptr1 |-> IF filename_only THEN 0 ELSE first,
                 ptr2 |-> NULL, failed |-> FALSE, brk |-> FALSE,
                 log |-> <<>>],
         filename_only |-> filename_only,
         use_extension |-> use_extension,
         extension_len |-> extension_len]

\* The run of utilsGeneratePath up to the `end:' label: the final loop state,
\* with `success' as the code sets it.
GeneratePathRun(prefix, filename, extension, alloc_ok) ==
    LET su == GeneratePathSetup(prefix, filename, extension)
        st == PathLoop(su.st, su.filename_only, su.use_extension,
                       su.extension_len)
    IN  IF filename = <<>>
        THEN [success |-> FALSE, path |-> <<0>>, path_len |-> 0, log |-> <<>>,
              error |-> "InvalidParameters", allocated |-> FALSE]
        ELSE IF ~alloc_ok
        THEN [success |-> FALSE, path |-> <<0>>, path_len |-> 0, log |-> <<>>,
              error |-> "AllocationFailed", allocated |-> FALSE]
        ELSE [success |-> ~st.failed /\ ~(st.path_len >= FS_MAX_PATH),
              path |-> st.path, path_len |-> st.path_len, log |-> st.log,
              error |-> IF st.failed THEN "ExtensionTooLong"
                        ELSE IF st.path_len >= FS_MAX_PATH THEN "PathTooLong"
                        ELSE "none",
              allocated |-> TRUE]

\* The buffer is kept although the call failed.
FreedAtEndNever(run) == FALSE

\* if (!success && path) free(path)
FreedAtEnd(run) == ~run.success /\ run.allocated

\* The `end:' label and the return: the path as a C string, or NULL.
ReturnedPath(run) == IF run.success THEN CString(run.path) ELSE NULL

utilsGeneratePath(prefix, filename, extension, alloc_ok) ==
    ReturnedPath(GeneratePathRun(prefix, filename, extension, alloc_ok))

(***************************************************************************)
(* utilsTrimString.  `start' and `end' are offsets into the string's       *)
(* buffer; `end' is one below the buffer's first byte (-1) when the        *)
(* backward loop has run off a string of whitespace only, as the pointer   *)
(* is in the code.                                                         *)
(***************************************************************************)

\* isspace() of the C locale.
isspace(c) == (c >= 9 /\ c <= 13) \/ c = 32

\* One evaluation of while(--end >= start) and of its body.
TrimEndStep(buf, start, end) ==
    LET e == end - 1
    IN  [end |-> e, brk |-> IF e >= start THEN ~isspace(ByteAt(buf, e))
                            ELSE TRUE]

RECURSIVE TrimEndLoop(_, _, _)
TrimEndLoop(buf, start, end) ==
    LET st == TrimEndStep(buf, start, end)
    IN  IF st.brk THEN st.end ELSE TrimEndLoop(buf, start, st.end)

\* One evaluation of while(isspace((unsigned char)*start)) and of its body.
TrimStartStep(buf, start) ==
    IF isspace(ByteAt(buf, start)) THEN [start |-> start + 1, brk |-> FALSE]
    ELSE [start |-> start, brk |-> TRUE]

RECURSIVE TrimStartLoop(_, _)
TrimStartLoop(buf, start) ==
    LET st == TrimStartStep(buf, start)
    IN  IF st.brk THEN st.start ELSE TrimStartLoop(buf, st.start)

\* The terminator is left behind.
TrimMoveWithoutTerminator(buf, start, end) ==
    IF start # 0 THEN memmove(buf, 0, start, end - start) ELSE buf

\* if (start != str) memmove(str, start, end - start + 1)
TrimMove(buf, start, end) ==
    IF start # 0 THEN memmove(buf, 0, start, end - start + 1) ELSE buf

\* The string the caller's buffer holds after utilsTrimString(str).
utilsTrimString(str) ==
    LET strsize == Len(str)
        buf0 == str \o <<0>>
        end == TrimEndLoop(buf0, 0, strsize) + 1
        buf1 == [buf0 EXCEPT ![end + 1] = 0]
        start == TrimStartLoop(buf1, 0)
    IN  IF strsize = 0 THEN str
        ELSE CString(TrimMove(buf1, start, end))

(***************************************************************************)
(* The resource flags.  g_resourcesMutex holds the thread that owns it, 0  *)
(* for none.  SCOPED_LOCK takes the mutex for its block unless the calling *)
(* thread owns it already, and gives it back at the end of the block if it *)
(* took it.                                                                *)
(***************************************************************************)

\* SCOPED_LOCK at the head of its block: whether thread t may enter.
ScopedLockEnters(mutex, t) == mutex = 0 \/ mutex = t

\* SCOPED_LOCK at the end of its block: the mutex, given back by the thread
\* whose block took it.
ScopedLockLeaves(mutex, t, took) == IF took THEN 0 ELSE mutex

\* The long-running state follows the request whatever g_resourcesInit is.
SetLongRunningProcessStateUnguarded(resourcesInit, longRunningProcess, state) ==
    state

\* The block of utilsSetLongRunningProcessState: the new value of
\* g_longRunningProcess.
SetLongRunningProcessState(resourcesInit, longRunningProcess, state) ==
    IF ~resourcesInit \/ state = longRunningProcess THEN longRunningProcess
    ELSE state

\* The steps of utilsInitializeResources that can fail, in the order of the
\* code; each failure leaves the block with `break'.
InitSteps ==
    <<"fsdevGetDeviceFileSystem", "servicesInitialize",
      "_utilsGetProductModel", "_utilsIsDevelopmentUnit", "httpInitialize",
      "usbInitialize", "umsInitialize", "keysLoadKeyset",
      "ncaAllocateCryptoBuffer", "gamecardInitialize", "titleInitialize",
      "bfttfInitialize", "utilsMountEmmcBisSystemPartitionStorage",
      "romfsInit", "configInitialize">>

NumInitSteps == Len(InitSteps)

\* The flags are set as soon as the first step has succeeded.
UpdateFlagsEarly(steps_done, flag) == steps_done >= 1 \/ flag

\* ret = g_resourcesInit = true, reached when steps_done steps have
\* succeeded: the value of either flag from its value before.
UpdateFlags(steps_done, flag) == steps_done = NumInitSteps \/ flag

(***************************************************************************)
(* Inputs.                                                                 *)
(***************************************************************************)

\* The longest input of the filter, in tokens.
MaxSanTokens == 3

\* The longest input of the truncation boundary search, in tokens.
MaxLimTokens == 3
MaxTrimTokens == 3
MaxTermTokens == 2
NumThreads == 2

\* Long file names start with 0..MaxPad single-byte characters, which shifts
\* the multi-byte codepoints behind them across the byte limit.
MaxPad == 2

\* Long file names are Under bytes below to Over bytes above the limit.
Under == 6

Over == 3

\* n copies of unit.
Rep(unit, n) ==
    [i \in 1..(n * Len(unit)) |-> unit[((i - 1) % Len(unit)) + 1]]

RECURSIVE Concat(_)
Concat(ss) == IF ss = <<>> THEN <<>> ELSE Head(ss) \o Concat(Tail(ss))

\* All sequences of at most n elements of S.
RECURSIVE SeqsUpTo(_, _)
SeqsUpTo(S, n) ==
    IF n = 0 THEN {<<>>}
    ELSE LET shorter == SeqsUpTo(S, n - 1)
         IN  shorter \cup {Append(q, x) : q \in shorter, x \in S}

LetterA == <<97>>
LetterX == <<120>>
EAcute == <<195, 169>>            \* U+00E9
IOgonek == <<196, 175>>           \* U+012F: its low byte is '/'
Euro == <<226, 130, 172>>         \* U+20AC
Emoji == <<240, 159, 152, 128>>   \* U+1F600

\* Well-formed and malformed pieces the filter's inputs are made of.
SanTokens ==
    {LetterA, <<58>>, <<1>>, <<127>>, EAcute, IOgonek, Euro, Emoji,
     <<169>>, <<195>>, <<192, 175>>, <<255>>, <<226, 130>>}

\* "a:b*c" and "h\xC3\xA9llo\x01"
SanScenarios ==
    {<<97, 58, 98, 42, 99>>, <<104, 195, 169, 108, 108, 111, 1>>}

SanInputs ==
    {Concat(ts) : ts \in SeqsUpTo(SanTokens, MaxSanTokens)} \cup SanScenarios

LimTokens == {LetterA, EAcute, Euro, Emoji, <<255>>, <<226, 130>>}

LimInputs == {Concat(ts) : ts \in SeqsUpTo(LimTokens, MaxLimTokens)}

DotTxt == <<46, 116, 120, 116>>
SdOut == <<115, 100, 58, 47, 111, 117, 116>>      \* "sd:/out"
LongExtension == Rep(<<46, 101, 120, 116, 101>>, 104)   \* 520 bytes
EdgeExtension == <<46>> \o Rep(<<101>>, NT_MAX_FILENAME_LENGTH - 2)

Units == {LetterX, EAcute, Euro, Emoji}

LongNames ==
    {Rep(LetterX, t[2]) \o Rep(t[1], t[3]) :
        t \in {u \in Units \X (0..MaxPad) \X (1..(NT_MAX_FILENAME_LENGTH + Over)) :
                 /\ u[2] + u[3] * Len(u[1]) >= NT_MAX_FILENAME_LENGTH - Under
                 /\ u[2] + u[3] * Len(u[1]) <= NT_MAX_FILENAME_LENGTH + Over}}

Filenames ==
    LongNames \cup
    {<<>>,
     <<102>>,                                              \* "f"
     <<118, 97, 108, 105, 100>>,                           \* "valid"
     Rep(LetterX, 300),
     Rep(Euro, 100),
     <<97, 255, 98>>,                                      \* malformed, short
     Rep(LetterX, 10) \o <<255>> \o Rep(LetterX, 289),     \* malformed, long
     Rep(Euro, 20) \o <<226, 130>> \o Rep(LetterX, 250),   \* malformed, long
     Rep(LetterX, 256) \o <<Slash, 98>>}

Prefixes ==
    {<<>>,
     <<112>>,                                              \* "p"
     SdOut,
     SdOut \o <<Slash>>,
     Rep(LetterA, 256),
     SdOut \o <<Slash>> \o Rep(Euro, 100),
     SdOut \o <<Slash>> \o Rep(LetterA, 255) \o <<Slash>> \o Rep(EAcute, 150),
     SdOut \o <<Slash>> \o Rep(LetterA, 20) \o <<255>> \o Rep(LetterA, 280),
     <<Slash>> \o Rep(LetterA, 300) \o <<Slash>> \o Rep(Emoji, 70)
               \o <<Slash>> \o Rep(LetterA, 260)}

\* Whitespace, letters, and two-byte codepoints; U+00A0 ends in a byte that
\* Latin-1 reads as a space.
TrimTokens ==
    {<<32>>, <<9>>, <<10>>, <<13>>, <<104>>, <<105>>, EAcute, <<194, 160>>}

\* "  hi\tthere  \n"
TrimScenario ==
    <<32, 32, 104, 105, 9, 116, 104, 101, 114, 101, 32, 32, 10>>

TrimInputs ==
    {Concat(ts) : ts \in SeqsUpTo(TrimTokens, MaxTrimTokens)}
    \cup {TrimScenario, <<11, 104, 12>>}

Extensions == {<<>>, DotTxt, <<46, 98, 105>>, EdgeExtension, LongExtension}

(***************************************************************************)
(* State.                                                                  *)
(***************************************************************************)
VARIABLES
    san_pc,       \* calls of utilsReplaceIllegalCharacters made on san_str
    san_in,       \* the string before the first call
    san_prev,     \* the string before the last call
    san_str,      \* the caller's string
    ascii_only,
    lim_pc,       \* "call" | "done"
    lim_str, lim_size, lim_limit,   \* arguments of utilsGetUtf8StringLimit
    lim_ret,
    gp_pc,        \* "call" | "done"
    gp_prefix, gp_filename, gp_extension,
    gp_alloc,     \* whether calloc() succeeds
    gp_run,       \* the loop's final state
    gp_live,      \* whether a buffer of the call is still allocated
    gp_ret,       \* the returned path, or NULL
    trim_pc,      \* "call" | "done"
    trim_in,      \* the string before utilsTrimString
    trim_str,     \* the caller's string
    tm_fn,        \* the function whose loops run one iteration at a time
    tm_pc,        \* "loop" | "loop2" | "done"
    tm_arg,       \* what the loop reads and never writes
    tm_st,        \* the loop's variables
    g_resourcesInit,
    g_longRunningProcess,
    g_resourcesMutex,     \* the owning thread, 0 when free
    res_pc,       \* where each thread is in the function it called
    res_state,    \* each thread's argument of utilsSetLongRunningProcessState
    res_ret,      \* `ret' of each thread's last utilsInitializeResources
    res_cleared,  \* whether each thread's last utilsCloseResources found the
                  \* long-running state set
    res_step      \* the steps of InitSteps that have succeeded in each
                  \* thread's block of utilsInitializeResources, 0 outside it

san_vars == <<san_pc, san_in, san_prev, san_str, ascii_only>>
lim_vars == <<lim_pc, lim_str, lim_size, lim_limit, lim_ret>>
gp_vars == <<gp_pc, gp_prefix, gp_filename, gp_extension, gp_alloc, gp_run,
             gp_live, gp_ret>>
trim_vars == <<trim_pc, trim_in, trim_str>>
tm_vars == <<tm_fn, tm_pc, tm_arg, tm_st>>
res_vars == <<g_resourcesInit, g_longRunningProcess, g_resourcesMutex, res_pc,
              res_state, res_ret, res_cleared, res_step>>
vars == <<san_vars, lim_vars, gp_vars, trim_vars, tm_vars, res_vars>>

NoRun == [success |-> FALSE, path |-> <<0>>, path_len |-> 0, log |-> <<>>,
          error |-> "none", allocated |-> FALSE]

SanIdle ==
    /\ san_pc = 0 /\ san_in = <<>> /\ san_prev = <<>> /\ san_str = <<>>
    /\ ascii_only = FALSE

LimIdle ==
    /\ lim_pc = "done" /\ lim_str = <<>> /\ lim_size = 0 /\ lim_limit = 0
    /\ lim_ret = 0

GpIdle ==
    /\ gp_pc = "done" /\ gp_prefix = <<>> /\ gp_filename = <<>>
    /\ gp_extension = <<>> /\ gp_alloc = TRUE /\ gp_run = NoRun
    /\ gp_live = FALSE /\ gp_ret = NULL

TrimIdle == trim_pc = "done" /\ trim_in = <<>> /\ trim_str = <<>>

TermIdle == tm_fn = "none" /\ tm_pc = "done" /\ tm_arg = <<>> /\ tm_st = <<>>

Threads == 1..NumThreads

\* static bool g_resourcesInit = false; static Mutex g_resourcesMutex = 0;
\* static bool g_longRunningProcess = false; no thread has called anything.
ResIdle ==
    /\ g_resourcesInit = FALSE
    /\ g_longRunningProcess = FALSE
    /\ g_resourcesMutex = 0
    /\ res_pc = [t \in Threads |-> "idle"]
    /\ res_state = [t \in Threads |-> FALSE]
    /\ res_ret = [t \in Threads |-> FALSE]
    /\ res_cleared = [t \in Threads |-> FALSE]
    /\ res_step = [t \in Threads |-> 0]

(***************************************************************************)
(* The filter: a caller sanitises its string, and may do so again.         *)
(***************************************************************************)
SanInit ==
    /\ san_pc = 0
    /\ san_in \in SanInputs
    /\ san_prev = san_in
    /\ san_str = san_in
    /\ ascii_only \in BOOLEAN
    /\ LimIdle /\ GpIdle /\ TrimIdle /\ TermIdle /\ ResIdle

ReplaceIllegalCharacters ==
    /\ san_pc < 2
    /\ san_pc' = san_pc + 1
    /\ san_prev' = san_str
    /\ san_str' = utilsReplaceIllegalCharacters(san_str, ascii_only)
    /\ UNCHANGED <<san_in, ascii_only, lim_vars, gp_vars, trim_vars,
                   tm_vars, res_vars>>

SanNext == ReplaceIllegalCharacters

SpecSan == SanInit /\ [][SanNext]_vars

(***************************************************************************)
(* The truncation boundary search on the first lim_size bytes of lim_str.  *)
(***************************************************************************)
LimInit ==
    /\ lim_pc = "call"
    /\ lim_str \in LimInputs
    /\ lim_size \in 0..Len(lim_str)
    /\ lim_limit \in 0..(lim_size + 1)
    /\ lim_ret = 0
    /\ SanIdle /\ GpIdle /\ TrimIdle /\ TermIdle /\ ResIdle

GetUtf8StringLimit ==
    /\ lim_pc = "call"
    /\ lim_pc' = "done"
    /\ lim_ret' = utilsGetUtf8StringLimit(lim_str \o <<0>>, 0, lim_size,
                                          lim_limit)
    /\ UNCHANGED <<lim_str, lim_size, lim_limit, san_vars, gp_vars,
                   trim_vars, tm_vars, res_vars>>

LimNext == GetUtf8StringLimit

SpecLim == LimInit /\ [][LimNext]_vars

(***************************************************************************)
(* Path synthesis.                                                         *)
(***************************************************************************)
GpInit ==
    /\ gp_pc = "call"
    /\ gp_prefix \in Prefixes
    /\ gp_filename \in Filenames
    /\ gp_extension \in Extensions
    /\ gp_alloc \in BOOLEAN
    /\ gp_run = NoRun
    /\ gp_live = FALSE
    /\ gp_ret = NULL
    /\ SanIdle /\ LimIdle /\ TrimIdle /\ TermIdle /\ ResIdle

GeneratePath ==
    /\ gp_pc = "call"
    /\ gp_pc' = "done"
    /\ gp_run' = GeneratePathRun(gp_prefix, gp_filename, gp_extension, gp_alloc)
    /\ gp_live' = (gp_run'.allocated /\ ~FreedAtEnd(gp_run'))
    /\ gp_ret' = ReturnedPath(gp_run')
    /\ UNCHANGED <<gp_prefix, gp_filename, gp_extension, gp_alloc, san_vars,
                   lim_vars, trim_vars, tm_vars, res_vars>>

GpNext == GeneratePath

SpecGp == GpInit /\ [][GpNext]_vars

(***************************************************************************)
(* Trimming.                                                               *)
(***************************************************************************)
TrimInit ==
    /\ trim_pc = "call"
    /\ trim_in \in TrimInputs
    /\ trim_str = trim_in
    /\ SanIdle /\ LimIdle /\ GpIdle /\ TermIdle /\ ResIdle

TrimString ==
    /\ trim_pc = "call"
    /\ trim_pc' = "done"
    /\ trim_str' = utilsTrimString(trim_str)
    /\ UNCHANGED <<trim_in, san_vars, lim_vars, gp_vars, tm_vars,
                   res_vars>>

TrimNext == TrimString

SpecTrim == TrimInit /\ [][TrimNext]_vars

(***************************************************************************)
(* The loops of the four functions, one iteration per step.  A call is in  *)
(* its loop ("loop", and "loop2" for the second loop of utilsTrimString)   *)
(* until it returns ("done").                                              *)
(***************************************************************************)
TermOthers == <<san_vars, lim_vars, gp_vars, trim_vars, res_vars>>

\* The strings of up to MaxTermTokens tokens, and the scenarios.
TermStrings(tokens, scenarios) ==
    {Concat(ts) : ts \in SeqsUpTo(tokens, MaxTermTokens)} \cup scenarios

ReplaceCall ==
    /\ tm_fn = "replace"
    /\ \E s \in TermStrings(SanTokens, SanScenarios), a \in BOOLEAN :
          /\ tm_arg = [str_size |-> Len(s), ascii_only |-> a]
          /\ tm_st = [buf |-> s \o <<0>>, ptr1 |-> 0, ptr2 |-> 0,
                      cur_pos |-> 0, brk |-> FALSE]

LimitCall ==
    /\ tm_fn = "limit"
    /\ \E s \in TermStrings(LimTokens, {}) :
          \E size \in 0..Len(s) : \E limit \in 0..(size + 1) :
             /\ tm_arg = [buf |-> s \o <<0>>, str_size |-> size,
                          byte_limit |-> limit]
             /\ tm_st = [cur_pos |-> 0, last_cp_pos |-> 0, brk |-> FALSE]

PathCall ==
    /\ tm_fn = "path"
    /\ \E p \in Prefixes, f \in Filenames \ {<<>>}, e \in Extensions :
          LET su == GeneratePathSetup(p, f, e)
          IN  /\ tm_arg = [filename_only |-> su.filename_only,
                           use_extension |-> su.use_extension,
                           extension_len |-> su.extension_len]
              /\ tm_st = su.st

TrimCall ==
    /\ tm_fn = "trim"
    /\ \E s \in TermStrings(TrimTokens, {TrimScenario}) :
          /\ tm_arg = [strsize |-> Len(s)]
          /\ tm_st = [buf |-> s \o <<0>>, start |-> 0, end |-> Len(s)]

TermInit ==
    /\ tm_pc = "loop"
    /\ ReplaceCall \/ LimitCall \/ PathCall \/ TrimCall
    /\ SanIdle /\ LimIdle /\ GpIdle /\ TrimIdle /\ ResIdle

\* while (cur_pos < str_size) of utilsReplaceIllegalCharacters.
ReplaceIterate ==
    /\ tm_fn = "replace" /\ tm_pc = "loop"
    /\ tm_st.cur_pos < tm_arg.str_size /\ ~tm_st.brk
    /\ tm_st' = ReplaceStep(tm_st, tm_arg.ascii_only)
    /\ UNCHANGED <<tm_fn, tm_pc, tm_arg, TermOthers>>

ReplaceReturn ==
    /\ tm_fn = "replace" /\ tm_pc = "loop"
    /\ ~(tm_st.cur_pos < tm_arg.str_size /\ ~tm_st.brk)
    /\ tm_pc' = "done"
    /\ tm_st' = [tm_st EXCEPT !.buf = [tm_st.buf EXCEPT ![tm_st.ptr2 + 1] = 0]]
    /\ UNCHANGED <<tm_fn, tm_arg, TermOthers>>

\* The two early returns of utilsGetUtf8StringLimit.
LimitReturnsEarly ==
    \/ ByteAt(tm_arg.buf, 0) = 0 \/ tm_arg.str_size = 0
    \/ tm_arg.byte_limit = 0
    \/ tm_arg.byte_limit > tm_arg.str_size

\* while (cur_pos < str_size && cur_pos < byte_limit)
LimitIterate ==
    /\ tm_fn = "limit" /\ tm_pc = "loop"
    /\ ~LimitReturnsEarly
    /\ tm_st.cur_pos < tm_arg.str_size /\ tm_st.cur_pos < tm_arg.byte_limit
    /\ ~tm_st.brk
    /\ tm_st' = LimitStep(tm_arg.buf, 0, tm_arg.str_size, tm_arg.byte_limit,
                          tm_st)
    /\ UNCHANGED <<tm_fn, tm_pc, tm_arg, TermOthers>>

LimitReturn ==
    /\ tm_fn = "limit" /\ tm_pc = "loop"
    /\ \/ LimitReturnsEarly
       \/ ~(/\ tm_st.cur_pos < tm_arg.str_size
            /\ tm_st.cur_pos < tm_arg.byte_limit
            /\ ~tm_st.brk)
    /\ tm_pc' = "done"
    /\ UNCHANGED <<tm_fn, tm_arg, tm_st, TermOthers>>

\* while (ptr1) of utilsGeneratePath.
PathIterate ==
    /\ tm_fn = "path" /\ tm_pc = "loop"
    /\ tm_st.ptr1 # NULL /\ ~tm_st.failed /\ ~tm_st.brk
    /\ tm_st' = PathStep(tm_st, tm_arg.filename_only, tm_arg.use_extension,
                         tm_arg.extension_len)
    /\ UNCHANGED <<tm_fn, tm_pc, tm_arg, TermOthers>>

PathReturn ==
    /\ tm_fn = "path" /\ tm_pc = "loop"
    /\ ~(tm_st.ptr1 # NULL /\ ~tm_st.failed /\ ~tm_st.brk)
    /\ tm_pc' = "done"
    /\ UNCHANGED <<tm_fn, tm_arg, tm_st, TermOthers>>

\* utilsTrimString returns at once for the empty string.
TrimReturnEmpty ==
    /\ tm_fn = "trim" /\ tm_pc = "loop"
    /\ tm_arg.strsize = 0
    /\ tm_pc' = "done"
    /\ UNCHANGED <<tm_fn, tm_arg, tm_st, TermOthers>>

\* while (--end >= start), and *(++end) = '\0' when the loop is left.
TrimEndIterate ==
    /\ tm_fn = "trim" /\ tm_pc = "loop"
    /\ tm_arg.strsize # 0
    /\ LET s == TrimEndStep(tm_st.buf, tm_st.start, tm_st.end)
       IN  IF s.brk
           THEN /\ tm_pc' = "loop2"
                /\ tm_st' = [tm_st EXCEPT
                               !.end = s.end + 1,
                               !.buf = [tm_st.buf EXCEPT ![s.end + 2] = 0]]
           ELSE /\ tm_pc' = tm_pc
                /\ tm_st' = [tm_st EXCEPT !.end = s.end]
    /\ UNCHANGED <<tm_fn, tm_arg, TermOthers>>

\* while (isspace(*start)) start++, and the memmove when the loop is left.
TrimStartIterate ==
    /\ tm_fn = "trim" /\ tm_pc = "loop2"
    /\ LET s == TrimStartStep(tm_st.buf, tm_st.start)
       IN  IF s.brk
           THEN /\ tm_pc' = "done"
                /\ tm_st' = [tm_st EXCEPT
                               !.buf = TrimMove(tm_st.buf, tm_st.start,
                                                tm_st.end)]
           ELSE /\ tm_pc' = tm_pc
                /\ tm_st' = [tm_st EXCEPT !.start = s.start]
    /\ UNCHANGED <<tm_fn, tm_arg, TermOthers>>

TermNext ==
    \/ ReplaceIterate \/ ReplaceReturn
    \/ LimitIterate \/ LimitReturn
    \/ PathIterate \/ PathReturn
    \/ TrimReturnEmpty \/ TrimEndIterate \/ TrimStartIterate

SpecTerm == TermInit /\ [][TermNext]_vars

(***************************************************************************)
(* Threads calling utilsInitializeResources, utilsCloseResources and       *)
(* utilsSetLongRunningProcessState in any order.  A thread is "idle"       *)
(* between calls, at "init_lock", "close_lock" or "set_lock" before the    *)
(* SCOPED_LOCK of the function it called, at "unlock" or "init_unlock" at  *)
(* the end of that block, and at "init_return" below the block of          *)
(* utilsInitializeResources.                                               *)
(***************************************************************************)
ResOthers == <<san_vars, lim_vars, gp_vars, trim_vars, tm_vars>>

ResInit == ResIdle /\ SanIdle /\ LimIdle /\ GpIdle /\ TrimIdle /\ TermIdle

CallInitializeResources(t) ==
    /\ res_pc[t] = "idle"
    /\ res_pc' = [res_pc EXCEPT ![t] = "init_lock"]
    /\ UNCHANGED <<g_resourcesInit, g_longRunningProcess, g_resourcesMutex,
                   res_state, res_ret, res_cleared, res_step, ResOthers>>

CallCloseResources(t) ==
    /\ res_pc[t] = "idle"
    /\ res_pc' = [res_pc EXCEPT ![t] = "close_lock"]
    /\ UNCHANGED <<g_resourcesInit, g_longRunningProcess, g_resourcesMutex,
                   res_state, res_ret, res_cleared, res_step, ResOthers>>

CallSetLongRunningProcessState(t) ==
    /\ res_pc[t] = "idle"
    /\ res_pc' = [res_pc EXCEPT ![t] = "set_lock"]
    /\ \E state \in BOOLEAN : res_state' = [res_state EXCEPT ![t] = state]
    /\ UNCHANGED <<g_resourcesInit, g_longRunningProcess, g_resourcesMutex,
                   res_ret, res_cleared, res_step, ResOthers>>

\* SCOPED_LOCK(&g_resourcesMutex) at the head of the three functions.
EnterLock(t) ==
    /\ res_pc[t] \in {"init_lock", "close_lock", "set_lock"}
    /\ ScopedLockEnters(g_resourcesMutex, t)
    /\ g_resourcesMutex' = t
    /\ res_pc' = [res_pc EXCEPT ![t] =
                     IF res_pc[t] = "init_lock" THEN "init_body"
                     ELSE IF res_pc[t] = "close_lock" THEN "close_body"
                     ELSE "set_body"]
    /\ UNCHANGED <<g_resourcesInit, g_longRunningProcess, res_state, res_ret,
                   res_cleared, res_step, ResOthers>>

\* ret = g_resourcesInit; if (ret) break;
InitializeCheck(t) ==
    /\ res_pc[t] = "init_body"
    /\ IF g_resourcesInit
       THEN /\ res_ret' = [res_ret EXCEPT ![t] = TRUE]
            /\ res_pc' = [res_pc EXCEPT ![t] = "init_unlock"]
       ELSE /\ res_ret' = [res_ret EXCEPT ![t] = FALSE]
            /\ res_pc' = [res_pc EXCEPT ![t] = "init_steps"]
    /\ UNCHANGED <<g_resourcesInit, g_longRunningProcess, g_resourcesMutex,
                   res_state, res_cleared, res_step, ResOthers>>

\* The next step of InitSteps, with what the code does between it and the
\* step before: it fails and leaves the block, or it succeeds, and behind
\* the last one ret = g_resourcesInit = true.
InitializeStep(t) ==
    /\ res_pc[t] = "init_steps"
    /\ \E ok \in BOOLEAN :
          IF ok
          THEN /\ res_step' = [res_step EXCEPT ![t] = @ + 1]
               /\ g_resourcesInit' = UpdateFlags(res_step'[t], g_resourcesInit)
               /\ res_ret' = [res_ret EXCEPT
                                 ![t] = UpdateFlags(res_step'[t], @)]
               /\ res_pc' = [res_pc EXCEPT ![t] =
                                IF res_step'[t] = NumInitSteps
                                THEN "init_unlock" ELSE "init_steps"]
          ELSE /\ res_pc' = [res_pc EXCEPT ![t] = "init_unlock"]
               /\ UNCHANGED <<g_resourcesInit, res_ret, res_step>>
    /\ UNCHANGED <<g_longRunningProcess, g_resourcesMutex, res_state,
                   res_cleared, ResOthers>>

\* The block of utilsSetLongRunningProcessState(state).
SetLongRunningBody(t) ==
    /\ res_pc[t] = "set_body"
    /\ g_longRunningProcess' =
          SetLongRunningProcessState(g_resourcesInit, g_longRunningProcess,
                                     res_state[t])
    /\ res_pc' = [res_pc EXCEPT ![t] = "unlock"]
    /\ UNCHANGED <<g_resourcesInit, g_resourcesMutex, res_state, res_ret,
                   res_cleared, res_step, ResOthers>>

\* utilsCloseResources: utilsSetLongRunningProcessState(false), called with
\* the mutex held, so that its SCOPED_LOCK neither takes nor gives it back.
CloseClearLongRunning(t) ==
    /\ res_pc[t] = "close_body"
    /\ ScopedLockEnters(g_resourcesMutex, t)
    /\ g_longRunningProcess' =
          SetLongRunningProcessState(g_resourcesInit, g_longRunningProcess,
                                     FALSE)
    /\ g_resourcesMutex' = ScopedLockLeaves(g_resourcesMutex, t, FALSE)
    /\ res_cleared' = [res_cleared EXCEPT ![t] = g_longRunningProcess]
    /\ res_pc' = [res_pc EXCEPT ![t] = "close_teardown"]
    /\ UNCHANGED <<g_resourcesInit, res_state, res_ret, res_step, ResOthers>>

\* utilsCloseResources: the interfaces are closed; g_resourcesInit = false.
CloseTeardown(t) ==
    /\ res_pc[t] = "close_teardown"
    /\ g_resourcesInit' = FALSE
    /\ res_pc' = [res_pc EXCEPT ![t] = "unlock"]
    /\ UNCHANGED <<g_longRunningProcess, g_resourcesMutex, res_state, res_ret,
                   res_cleared, res_step, ResOthers>>

\* The end of the SCOPED_LOCK block of the function called.
\* utilsInitializeResources goes on below its block, the other two return.
LeaveLock(t) ==
    /\ res_pc[t] \in {"unlock", "init_unlock"}
    /\ g_resourcesMutex' = ScopedLockLeaves(g_resourcesMutex, t, TRUE)
    /\ res_pc' = [res_pc EXCEPT ![t] =
                     IF res_pc[t] = "init_unlock" THEN "init_return"
                     ELSE "idle"]
    /\ res_step' = [res_step EXCEPT ![t] = 0]
    /\ UNCHANGED <<g_resourcesInit, g_longRunningProcess, res_state, res_ret,
                   res_cleared, ResOthers>>

\* utilsInitializeResources below its block, the mutex given back: the error
\* message if (!ret), and return ret.
InitializeReturn(t) ==
    /\ res_pc[t] = "init_return"
    /\ res_pc' = [res_pc EXCEPT ![t] = "idle"]
    /\ UNCHANGED <<g_resourcesInit, g_longRunningProcess, g_resourcesMutex,
                   res_state, res_ret, res_cleared, res_step, ResOthers>>

ResNext ==
    \E t \in Threads :
        \/ CallInitializeResources(t)
        \/ CallCloseResources(t)
        \/ CallSetLongRunningProcessState(t)
        \/ EnterLock(t)
        \/ InitializeCheck(t)
        \/ InitializeStep(t)
        \/ SetLongRunningBody(t)
        \/ CloseClearLongRunning(t)
        \/ CloseTeardown(t)
        \/ LeaveLock(t)
        \/ InitializeReturn(t)

SpecRes == ResInit /\ [][ResNext]_vars


(***************************************************************************)
(* Notions the properties are stated with.                                 *)
(***************************************************************************)

\* The length a lead byte announces; 0 for a byte that starts no sequence.
LeadLen(b) ==
    IF b >= 194 /\ b < 224 THEN 2
    ELSE IF b >= 224 /\ b < 240 THEN 3
    ELSE IF b >= 240 /\ b < 245 THEN 4
    ELSE 0

\* The second byte of a sequence rules out overlong forms and values above
\* U+10FFFF.
SecondByteOk(b1, b2) ==
    /\ b1 = 224 => b2 >= 160
    /\ b1 = 240 => b2 >= 144
    /\ b1 = 244 => b2 < 144

\* Byte i of s is in place: a lead byte is followed by exactly the
\* continuation bytes it announces, a continuation byte belongs to a lead byte
\* before it.
ByteOk(s, i) ==
    LET b == s[i]
    IN  IF b < 128 THEN TRUE
        ELSE IF b < 192
        THEN \E k \in 1..3 :
                /\ i - k >= 1
                /\ LeadLen(s[i - k]) > k
                /\ \A j \in (i - k + 1)..(i - 1) : s[j] >= 128 /\ s[j] < 192
        ELSE /\ LeadLen(b) > 0
             /\ i + LeadLen(b) - 1 <= Len(s)
             /\ \A j \in (i + 1)..(i + LeadLen(b) - 1) :
                    s[j] >= 128 /\ s[j] < 192
             /\ SecondByteOk(b, s[i + 1])

\* s is a sequence of complete UTF-8 encoded codepoints.  (Encoded
\* surrogates, ED A0..BF xx, are not told apart from other three-byte
\* sequences: the decoder's contract does not name them.)
WellFormedUtf8(s) == \A i \in 1..Len(s) : ByteOk(s, i)

\* The offset of the first malformed sequence of s, Len(s) when s has none.
FirstMalformed(s) ==
    LET bad == {i \in 1..Len(s) : ~ByteOk(s, i)}
    IN  IF bad = {} THEN Len(s)
        ELSE (CHOOSE i \in bad : \A j \in bad : i <= j) - 1

\* The offset at which decoding s codepoint by codepoint first fails, Len(s)
\* when it never does.
RECURSIVE FailPos(_, _)
FailPos(s, pos) ==
    IF pos >= Len(s) THEN Len(s)
    ELSE LET d == decode_utf8(s \o <<0>>, pos)
         IN  IF d.units < 0 THEN pos ELSE FailPos(s, pos + d.units)

NoDecodeError(s) == FailPos(s, 0) = Len(s)

\* The codepoints of s before its first decode failure, each with its bytes.
RECURSIVE Codepoints(_, _)
Codepoints(s, pos) ==
    IF pos >= Len(s) THEN <<>>
    ELSE LET d == decode_utf8(s \o <<0>>, pos)
         IN  IF d.units < 0 THEN <<>>
             ELSE <<[code |-> d.code,
                     bytes |-> SubSeq(s, pos + 1, pos + d.units)]>>
                  \o Codepoints(s, pos + d.units)

\* A fresh string built from the codepoints cps: codepoint i is replaced by
\* "_" when replaced[i] and copied otherwise.
Rebuild(cps, replaced) ==
    Concat([i \in 1..Len(cps) |->
               IF replaced[i] THEN <<Underscore>> ELSE cps[i].bytes])

(***************************************************************************)
(* Properties of utilsReplaceIllegalCharacters (SpecSan).                  *)
(***************************************************************************)

\* C3: whatever the input, the string the filter leaves is valid UTF-8, and
\* it is exactly the sanitised form of the codepoints before the first decode
\* failure: nothing at or after the failing position is passed through.
C3_FailClosedValidUtf8 ==
    san_pc >= 1 =>
        /\ WellFormedUtf8(san_str)
        /\ LET cps == Codepoints(san_prev, 0)
           IN  san_str = Rebuild(cps, [i \in 1..Len(cps) |->
                                         IsIllegalCode(cps[i].code, ascii_only)])
        /\ Len(san_str) <= FailPos(san_prev, 0)

\* C3 witness: the first call met a decode failure in the middle of its input,
\* after a multi-byte codepoint it kept and before further bytes.
C3_Witness ==
    /\ san_pc = 1
    /\ FailPos(san_prev, 0) >= 2
    /\ FailPos(san_prev, 0) < Len(san_prev) - 1
    /\ san_str = SubSeq(san_prev, 1, FailPos(san_prev, 0))
    /\ \E i \in 1..Len(san_str) : san_str[i] >= 128

\* The nine reserved characters, as codepoints.
ReservedCodepoints == {92, 47, 58, 42, 63, 34, 60, 62, 124}

\* The rule of the specification for one codepoint.
IllegalBySpec(code, ascii) ==
    \/ code \in ReservedCodepoints
    \/ code < 32
    \/ (~ascii /\ code = 127)
    \/ (ascii /\ code >= 127)

\* C5 (as claimed): each codepoint, of any value, is replaced by "_" exactly
\* when the rule of the specification calls it illegal, and is copied
\* unchanged otherwise.
C5_PerCodepointRule ==
    (san_pc = 1 /\ NoDecodeError(san_prev)) =>
        LET cps == Codepoints(san_prev, 0)
        IN  san_str = Rebuild(cps, [i \in 1..Len(cps) |->
                                      IllegalBySpec(cps[i].code, ascii_only)])

\* C6: filtering the output of the filter again leaves it unchanged.
C6_Idempotent ==
    (san_pc = 2 /\ NoDecodeError(san_in)) => san_str = san_prev

\* C6 witness: a second call on a string the first call both changed and left
\* a multi-byte codepoint in.
C6_Witness ==
    /\ san_pc = 2
    /\ NoDecodeError(san_in)
    /\ san_prev # san_in
    /\ Len(san_prev) = Len(san_in)
    /\ \E i \in 1..Len(san_prev) : san_prev[i] >= 128
    /\ san_str = san_prev


(***************************************************************************)
(* Properties of utilsGetUtf8StringLimit (SpecLim).  The string is the     *)
(* first lim_size bytes of lim_str.                                        *)
(***************************************************************************)
LimString == SubSeq(lim_str, 1, lim_size)

\* C7: the offset returned is at most the byte budget and at most the string
\* length, and it is a codepoint boundary: the string length, or the end of a
\* run of complete codepoints that starts the string (0 for the empty run).
C7_BoundaryWithinBudget ==
    lim_pc = "done" =>
        /\ lim_ret >= 0
        /\ lim_ret <= lim_limit
        /\ lim_ret <= lim_size
        /\ \/ lim_ret = lim_size
           \/ WellFormedUtf8(SubSeq(LimString, 1, lim_ret))

\* C7 witness: the budget falls inside a multi-byte codepoint of a well-formed
\* string and the offset returned is the start of that codepoint.
C7_Witness ==
    /\ lim_pc = "done"
    /\ WellFormedUtf8(LimString)
    /\ lim_limit < lim_size
    /\ ~WellFormedUtf8(SubSeq(LimString, 1, lim_limit))
    /\ lim_ret > 0
    /\ lim_ret < lim_limit

\* C8 (as claimed): for a non-empty string and a budget that is at least the
\* string length, the budget equal to the length included, the whole length is
\* returned.
C8_NoTruncationWithinBudget ==
    (lim_pc = "done" /\ lim_size > 0 /\ lim_limit >= lim_size) =>
        lim_ret = lim_size


(***************************************************************************)
(* Properties of utilsGeneratePath (SpecGp).                               *)
(***************************************************************************)

\* The call returned a path.
Succeeded == gp_pc = "done" /\ gp_run.success

\* The offsets around the components of s: before its first byte, at each
\* separator, and behind its last byte.
Cuts(s) == {0, Len(s) + 1} \cup {i \in 1..Len(s) : s[i] = Slash}

\* Every component of s, the one before the first separator included, has at
\* most n bytes.
ComponentsAtMost(s, n) ==
    \A p \in Cuts(s) \ {Len(s) + 1} :
        \E q \in Cuts(s) : q > p /\ q - p - 1 <= n

\* The component behind the last separator of s (all of s without one).
LastComponent(s) ==
    LET before == Cuts(s) \ {Len(s) + 1}
        p == CHOOSE i \in before : \A j \in before : j <= i
    IN  SubSeq(s, p + 1, Len(s))

\* prefix + separator + filename + extension, as the arguments give it.
InputPath ==
    gp_prefix
    \o (IF gp_prefix # <<>> /\ gp_prefix[Len(gp_prefix)] # Slash
        THEN <<Slash>> ELSE <<>>)
    \o gp_filename \o gp_extension

LastEntry == gp_run.log[Len(gp_run.log)]

\* The last element of the path was cut.
LastTruncated ==
    /\ gp_run.log # <<>>
    /\ LastEntry.last
    /\ LastEntry.last_cp_pos < LastEntry.element_size

\* C1 (as claimed): every component of a returned path has at most 255 bytes
\* and the path is shorter than FS_MAX_PATH.
C1_LengthBounds ==
    Succeeded =>
        /\ ComponentsAtMost(gp_ret, NT_MAX_FILENAME_LENGTH)
        /\ Len(gp_ret) < FS_MAX_PATH

\* C2 (as claimed): from arguments that are valid UTF-8, a returned path is
\* valid UTF-8.
C2_ValidUtf8Path ==
    (/\ Succeeded
     /\ WellFormedUtf8(gp_prefix)
     /\ WellFormedUtf8(gp_filename)
     /\ WellFormedUtf8(gp_extension)) => WellFormedUtf8(gp_ret)

\* C4: when the call succeeds with an extension and the last component was
\* cut, the path ends with the bytes of the extension, and what precedes them
\* in the last component is a proper prefix of that component as it was
\* supplied.
C4_ExtensionPreserved ==
    (Succeeded /\ gp_extension # <<>> /\ LastTruncated) =>
        LET comp == LastComponent(gp_ret)
            orig == LastComponent(InputPath)
            x == Len(gp_extension)
            n == Len(comp)
        IN  /\ n > x
            /\ SubSeq(gp_ret, Len(gp_ret) - x + 1, Len(gp_ret)) = gp_extension
            /\ LastEntry.elem = orig
            /\ n < Len(orig)
            /\ SubSeq(comp, 1, n - x) = SubSeq(orig, 1, n - x)

\* C4 witness: a path returned after its last component, made of multi-byte
\* codepoints, was cut and the extension put behind what is left.
C4_Witness ==
    /\ Succeeded
    /\ gp_extension = DotTxt
    /\ LastTruncated
    /\ LastEntry.elem[1] >= 128
    /\ Len(LastComponent(gp_ret)) > Len(gp_extension)

\* C9 (as claimed): a file name of single-byte legal characters that makes the
\* last component longer than 255 bytes yields a path whose last component
\* has exactly 255 bytes, ends with the extension, and starts with a prefix
\* of the file name.
C9_ScenarioC ==
    (/\ gp_pc = "done"
     /\ gp_alloc
     /\ gp_prefix = SdOut
     /\ gp_extension = DotTxt
     /\ gp_filename # <<>>
     /\ \A i \in 1..Len(gp_filename) : gp_filename[i] = LetterX[1]
     /\ Len(gp_filename) + Len(gp_extension) > NT_MAX_FILENAME_LENGTH)
    => /\ gp_run.success
       /\ LET comp == LastComponent(gp_ret)
              n == Len(comp)
          IN  /\ n = NT_MAX_FILENAME_LENGTH
              /\ SubSeq(comp, n - 3, n) = DotTxt
              /\ SubSeq(comp, 1, n - 4) = SubSeq(gp_filename, 1, n - 4)

\* The scan of element e (an element of at least 255 bytes is decoded) comes
\* upon a malformed sequence.
ScanMeetsMalformed(e) ==
    /\ e.element_size >= NT_MAX_FILENAME_LENGTH
    /\ FirstMalformed(e.elem) < Len(e.elem)
    /\ FirstMalformed(e.elem) < NT_MAX_FILENAME_LENGTH

\* The extension-too-long failure.
ExtensionTooLong ==
    /\ LastTruncated
    /\ gp_extension # <<>>
    /\ Len(gp_extension) >= LastEntry.last_cp_pos

\* C10 (as claimed): a scanned component with a malformed sequence makes the
\* call fail.
C10_MalformedFails ==
    (gp_pc = "done" /\ gp_alloc /\ gp_filename # <<>>
     /\ \E k \in 1..Len(gp_run.log) : ScanMeetsMalformed(gp_run.log[k]))
    => ~gp_run.success

\* C10 (amended): a scanned component with a malformed sequence is cut at
\* that sequence, and the call fails only when the extension does not fit
\* the cut last component or the final path is too long.
C10_MalformedIsCut ==
    (gp_pc = "done" /\ gp_alloc /\ gp_filename # <<>>) =>
        /\ \A k \in 1..Len(gp_run.log) :
              ScanMeetsMalformed(gp_run.log[k]) =>
                  gp_run.log[k].last_cp_pos = FirstMalformed(gp_run.log[k].elem)
        /\ ~gp_run.success =>
              (ExtensionTooLong \/ gp_run.path_len >= FS_MAX_PATH)

\* C10 witness: a path returned although the scan of its last component came
\* upon a malformed sequence behind some well-formed codepoints; the component
\* was cut there.
C10_Witness ==
    /\ Succeeded
    /\ LastTruncated
    /\ ScanMeetsMalformed(LastEntry)
    /\ FirstMalformed(LastEntry.elem) > 0
    /\ Len(LastComponent(gp_ret)) = FirstMalformed(LastEntry.elem)


(***************************************************************************)
(* The failures of utilsGeneratePath.                                      *)
(***************************************************************************)

\* The call got past its parameter check and its allocation.
Scanned == gp_pc = "done" /\ gp_alloc /\ gp_filename # <<>>

\* The greatest end of a codepoint of s below NT_MAX_FILENAME_LENGTH that no
\* malformed sequence precedes.
Boundary(s) ==
    LET fm == FirstMalformed(s)
        ends == {b \in 0..(NT_MAX_FILENAME_LENGTH - 1) :
                    /\ b <= fm
                    /\ (b < fm => ~IsContinuation(s[b + 1]))}
    IN  CHOOSE b \in ends : \A c \in ends : c <= b

C12_FailureReleasesBuffer ==
    gp_pc = "done" =>
        /\ gp_run.success <=> gp_run.error = "none"
        /\ gp_filename = <<>> => gp_run.error = "InvalidParameters"
        /\ gp_filename # <<>> /\ ~gp_alloc =>
              gp_run.error = "AllocationFailed"
        /\ Scanned /\ ExtensionTooLong => gp_run.error = "ExtensionTooLong"
        /\ Scanned /\ ~ExtensionTooLong =>
              /\ gp_run.path_len = strlen(gp_run.path)
              /\ gp_run.success <=> strlen(gp_run.path) < FS_MAX_PATH
        /\ ~gp_run.success => gp_ret = NULL /\ ~gp_live
        /\ gp_run.success => gp_live /\ gp_ret = CString(gp_run.path)

\* A call failed on the length of the path, which truncation had shortened,
\* and its buffer was released.
C12_Witness ==
    /\ Scanned
    /\ gp_run.error = "PathTooLong"
    /\ gp_run.allocated /\ ~gp_live /\ gp_ret = NULL
    /\ gp_run.path_len < Len(InputPath)

\* No element the loop measured was found longer than its UTF-8 limit.
NoElementTruncated ==
    \A k \in 1..Len(gp_run.log) :
        gp_run.log[k].last_cp_pos = gp_run.log[k].element_size

Whitespace == {32, 9, 10, 11, 12, 13}

\* s without its longest prefix and its longest suffix of whitespace.
Trimmed(s) ==
    LET keep == {i \in 1..Len(s) : s[i] \notin Whitespace}
    IN  IF keep = {} THEN <<>>
        ELSE SubSeq(s, CHOOSE i \in keep : \A j \in keep : i <= j,
                       CHOOSE i \in keep : \A j \in keep : j <= i)

\* C14: utilsTrimString leaves the input without its maximal leading and
\* trailing runs of whitespace, every byte between them as it was; a string
\* of whitespace only becomes empty and the empty string stays empty.
C14_TrimRemovesOuterWhitespace ==
    trim_pc = "done" =>
        /\ trim_str = Trimmed(trim_in)
        /\ (\A i \in 1..Len(trim_in) : trim_in[i] \in Whitespace) =>
              trim_str = <<>>

\* trim("  hi\tthere  \n") gave "hi\tthere".
C14_Witness ==
    /\ trim_pc = "done"
    /\ trim_in = TrimScenario
    /\ trim_str = <<104, 105, 9, 116, 104, 101, 114, 101>>

(***************************************************************************)
(* The size and the bytes of the filter's output (SpecSan).                *)
(***************************************************************************)

\* The bytes the codepoints cps[i..] lose when each replaced one becomes a
\* single byte.
RECURSIVE SavedBytes(_, _, _)
SavedBytes(cps, i, ascii) ==
    IF i > Len(cps) THEN 0
    ELSE (IF IsIllegalCode(cps[i].code, ascii) THEN Len(cps[i].bytes) - 1
          ELSE 0)
         + SavedBytes(cps, i + 1, ascii)

\* C15: utilsReplaceIllegalCharacters never grows the string, so that its
\* terminator lies within the string's storage; without decode errors the
\* output is shorter than the input by (source bytes - 1) for each replaced
\* codepoint; with ascii_only every output byte is in 0x20..0x7E; in either
\* mode no output byte is a reserved character or a control byte below 0x20.
C15_NeverGrowsOnlyLegalBytes ==
    san_pc >= 1 =>
        /\ Len(san_str) <= Len(san_prev)
        /\ NoDecodeError(san_prev) =>
              Len(san_str) = Len(san_prev)
                             - SavedBytes(Codepoints(san_prev, 0), 1,
                                          ascii_only)
        /\ ascii_only => \A i \in 1..Len(san_str) :
                            san_str[i] >= 32 /\ san_str[i] <= 126
        /\ \A i \in 1..Len(san_str) :
              san_str[i] \notin ReservedCodepoints /\ san_str[i] >= 32

\* "h\xC3\xA9llo\x01" became "h_llo_" with ascii_only: one byte shorter.
C15_Witness ==
    /\ san_pc = 1 /\ ascii_only
    /\ san_prev = <<104, 195, 169, 108, 108, 111, 1>>
    /\ san_str = <<104, 95, 108, 108, 111, 95>>

(***************************************************************************)
(* The offset utilsGetUtf8StringLimit returns (SpecLim).                   *)
(***************************************************************************)

\* The offsets of LimString at which a run of complete codepoints that starts
\* the string ends.
CodepointEnds ==
    {b \in 0..lim_size : WellFormedUtf8(SubSeq(LimString, 1, b))}

\* C16: for a byte budget that is not larger than the string length,
\* utilsGetUtf8StringLimit returns the greatest end of a decoded codepoint
\* that is strictly below the budget, 0 when there is none: an end on the
\* budget itself is left out, and no offset behind the first decode failure
\* or behind a codepoint that runs past the string length is returned.
C16_GreatestEndBelowBudget ==
    (lim_pc = "done" /\ lim_limit <= lim_size) =>
        LET below == {b \in CodepointEnds : b < lim_limit}
        IN  /\ below = {} => lim_ret = 0
            /\ below # {} =>
                  lim_ret = CHOOSE b \in below : \A c \in below : c <= b
            /\ lim_ret <= FailPos(LimString, 0)
            /\ lim_limit > 0 => lim_ret < lim_limit

\* A codepoint of several bytes ends exactly on the budget, and the offset
\* returned is the end of the codepoint before it.
C16_Witness ==
    /\ lim_pc = "done"
    /\ lim_limit <= lim_size
    /\ lim_limit \in CodepointEnds
    /\ lim_limit - lim_ret >= 2
    /\ lim_ret > 0
    /\ lim_ret \in CodepointEnds

(***************************************************************************)
(* Truncation of the elements before the last (SpecGp).                    *)
(***************************************************************************)

\* The cuts of s in ascending order.
SortedCuts(s) ==
    LET cuts == Cuts(s)
    IN  [k \in 1..Cardinality(cuts) |->
            CHOOSE c \in cuts : Cardinality({d \in cuts : d < c}) = k - 1]

\* The components of s: what lies between two neighbouring cuts.
Components(s) ==
    LET sc == SortedCuts(s)
    IN  [k \in 1..(Len(sc) - 1) |-> SubSeq(s, sc[k] + 1, sc[k + 1] - 1)]

\* The bytes the elements log[k..] lost; the last element loses none when the
\* call ended on the extension.
RECURSIVE RemovedBytes(_, _, _)
RemovedBytes(log, k, ext_failed) ==
    IF k > Len(log) THEN 0
    ELSE (IF log[k].last /\ ext_failed THEN 0
          ELSE log[k].element_size - log[k].last_cp_pos)
         + RemovedBytes(log, k + 1, ext_failed)

\* The buffer of the call as a string, returned or not.
WorkPath == CString(gp_run.path)

\* C17: truncating an element that is not the last removes bytes from the
\* tail of that element only.  The length shrinks by the number of bytes
\* removed; the result has as many separators, hence components, as the
\* concatenated input; each later component is measured with the bytes the
\* input gave it, so that every over-long one is truncated in its turn; and
\* each component before the last ends up as the first last_cp_pos bytes of
\* its input.
C17_TruncationKeepsTheRest ==
    Scanned =>
        LET ci == Components(InputPath)
            co == Components(WorkPath)
            log == gp_run.log
        IN  /\ Len(co) = Len(ci)
            /\ gp_run.path_len = Len(WorkPath)
            /\ Len(WorkPath) = Len(InputPath)
                 - RemovedBytes(log, 1, gp_run.error = "ExtensionTooLong")
            /\ Len(ci) = 1 => Len(log) = 1 /\ log[1].elem = ci[1]
            /\ Len(ci) > 1 =>
                  /\ co[1] = ci[1]
                  /\ Len(log) = Len(ci) - 1
                  /\ \A k \in 1..Len(log) :
                        /\ log[k].elem = ci[k + 1]
                        /\ log[k].last <=> k = Len(log)
                        /\ log[k].last_cp_pos <= log[k].element_size
                        /\ log[k].element_size >= NT_MAX_FILENAME_LENGTH =>
                              log[k].last_cp_pos < NT_MAX_FILENAME_LENGTH
                        /\ k < Len(log) =>
                              co[k + 1] = SubSeq(ci[k + 1], 1,
                                                 log[k].last_cp_pos)

\* Two elements before the last were over-long, both were truncated, and the
\* path was returned.
C17_Witness ==
    /\ Succeeded
    /\ \E j, k \in 1..(Len(gp_run.log) - 1) :
          /\ j < k
          /\ gp_run.log[j].last_cp_pos < gp_run.log[j].element_size
          /\ gp_run.log[k].last_cp_pos < gp_run.log[k].element_size
          /\ Len(Components(gp_ret)[k + 1]) = gp_run.log[k].last_cp_pos

(***************************************************************************)
(* The edits of utilsGeneratePath stay inside its buffer (SpecGp).         *)
(***************************************************************************)

\* The bytes a memmove reads and writes are at offsets 0..last of the buffer.
MoveWithin(m, last) ==
    /\ m.n >= 0
    /\ m.n > 0 => /\ m.dst >= 0 /\ m.dst + m.n - 1 <= last
                  /\ m.src >= 0 /\ m.src + m.n - 1 <= last

\* C19: the buffer of utilsGeneratePath has path_len + 1 bytes for the
\* path_len of the concatenation, and every edit stays inside it: path_len
\* never grows from one element to the next, each memmove reads and writes
\* offsets in 0..initial path_len only, the memmove for the extension touches
\* no byte before the start of the element, and at the end path[path_len] is
\* the terminator with no NUL before it.
C19_EditsStayInBuffer ==
    Scanned =>
        LET initial == Len(InputPath)
            log == gp_run.log
        IN  /\ Len(gp_run.path) = initial + 1
            /\ gp_run.path_len <= initial
            /\ \A k \in 1..Len(log) :
                  /\ log[k].len_after <= log[k].len_before
                  /\ log[k].len_before =
                        (IF k = 1 THEN initial ELSE log[k - 1].len_after)
                  /\ MoveWithin(log[k].move, initial)
                  /\ log[k].last /\ log[k].move.n > 0 =>
                        /\ log[k].move.dst >= log[k].ptr1
                        /\ log[k].move.src >= log[k].ptr1
            /\ log # <<>> => gp_run.path_len = log[Len(log)].len_after
            /\ ByteAt(gp_run.path, gp_run.path_len) = 0
            /\ \A i \in 0..(gp_run.path_len - 1) : ByteAt(gp_run.path, i) # 0

\* An element before the last and the last element were both truncated, the
\* extension was moved, and the path was returned.
C19_Witness ==
    /\ Succeeded
    /\ LastTruncated
    /\ LastEntry.move.n > 0
    /\ LastEntry.move.dst > LastEntry.ptr1
    /\ \E k \in 1..(Len(gp_run.log) - 1) : gp_run.log[k].move.n > 0
    /\ gp_run.path_len < Len(InputPath)

(***************************************************************************)
(* Termination of the four functions (SpecTerm).                           *)
(***************************************************************************)

\* The call is still in a loop whose test holds.
InLoop ==
    /\ tm_pc # "done"
    /\ tm_fn = "replace" =>
          tm_st.cur_pos < tm_arg.str_size /\ ~tm_st.brk
    /\ tm_fn = "limit" =>
          /\ ~LimitReturnsEarly /\ ~tm_st.brk
          /\ tm_st.cur_pos < tm_arg.str_size
          /\ tm_st.cur_pos < tm_arg.byte_limit
    /\ tm_fn = "path" =>
          tm_st.ptr1 # NULL /\ ~tm_st.failed /\ ~tm_st.brk
    /\ tm_fn = "trim" => tm_arg.strsize # 0

\* What a loop has left to go through, at most: the bytes between its cursor
\* and the end it runs to, and one step more to return.
Rank ==
    IF tm_pc = "done" THEN 0
    ELSE IF ~InLoop THEN 1
    ELSE IF tm_fn = "replace" THEN 2 + tm_arg.str_size - tm_st.cur_pos
    ELSE IF tm_fn = "limit" THEN 2 + tm_arg.str_size - tm_st.cur_pos
    ELSE IF tm_fn = "path" THEN 2 + tm_st.path_len - tm_st.ptr1
    ELSE IF tm_pc = "loop" THEN 4 + tm_arg.strsize + tm_st.end
    ELSE 2 + tm_arg.strsize - tm_st.start

\* The step is an iteration of a loop.
Iteration ==
    \/ ReplaceIterate \/ LimitIterate \/ PathIterate
    \/ TrimEndIterate \/ TrimStartIterate

\* The cursor of the loop has moved on: by one to four bytes in the two
\* codepoint loops, to a later separator in the path loop, by one byte in
\* the loops of utilsTrimString.
CursorAdvanced ==
    /\ tm_fn \in {"replace", "limit"} =>
          tm_st'.cur_pos - tm_st.cur_pos \in 1..4
    /\ tm_fn = "path" =>
          /\ tm_st'.ptr1 > tm_st.ptr1
          /\ ByteAt(tm_st'.path, tm_st'.ptr1) = Slash
    /\ tm_fn = "trim" /\ tm_pc = "loop" => tm_st'.end = tm_st.end - 1
    /\ tm_fn = "trim" /\ tm_pc = "loop2" => tm_st'.start = tm_st.start + 1

\* The call can take a step that is not a repetition of the state it is in.
\* For utilsGeneratePath this is said of the loop's own variables, leaving
\* out the history the model keeps of it.
CanStep ==
    IF tm_fn # "path" THEN ENABLED <<TermNext>>_vars
    ELSE InLoop =>
            LET n == PathStep(tm_st, tm_arg.filename_only,
                              tm_arg.use_extension, tm_arg.extension_len)
            IN  <<n.path, n.path_len, n.ptr1, n.ptr2, n.failed, n.brk>>
                # <<tm_st.path, tm_st.path_len, tm_st.ptr1, tm_st.ptr2,
                    tm_st.failed, tm_st.brk>>

\* C18: every call of utilsReplaceIllegalCharacters, utilsGetUtf8StringLimit,
\* utilsGeneratePath and utilsTrimString returns.  A call that has not
\* returned can always take a step that changes its state; each step lowers
\* a rank that is a natural number, so that a call is over after at most as
\* many steps as its first rank; and each iteration of a loop moves the
\* loop's cursor on or leaves the loop.
C18_EveryCallReturns ==
    /\ [](tm_pc # "done" => CanStep)
    /\ [](Rank \in Nat)
    /\ [][Rank' < Rank]_vars
    /\ [][Iteration => (CursorAdvanced \/ ~InLoop' \/ tm_pc' # tm_pc)]_vars

\* A call of utilsGeneratePath has returned after its loop went round for
\* three elements and truncated two of them.
C18_Witness ==
    /\ tm_fn = "path" /\ tm_pc = "done"
    /\ Len(tm_st.log) >= 3
    /\ tm_st.path_len <= Len(tm_st.path) - 3

(***************************************************************************)
(* The resource flags (SpecRes).                                           *)
(***************************************************************************)

\* C20: whatever the threads call, and in whatever order their calls get the
\* mutex, g_longRunningProcess implies g_resourcesInit whenever no thread is
\* inside a locked block; utilsSetLongRunningProcessState changes nothing
\* when the resources are not initialised or the state asked for is the
\* current one; and utilsCloseResources has cleared the long-running state
\* when it clears g_resourcesInit.
C20_LongRunningOnlyWhileInitialised ==
    /\ [](g_resourcesMutex = 0 => (g_longRunningProcess => g_resourcesInit))
    /\ [][\A t \in Threads :
            (/\ SetLongRunningBody(t)
             /\ (~g_resourcesInit \/ res_state[t] = g_longRunningProcess))
            => UNCHANGED <<g_resourcesInit, g_longRunningProcess>>]_vars
    /\ [][\A t \in Threads :
            CloseTeardown(t) =>
                ~g_longRunningProcess /\ ~g_longRunningProcess']_vars

\* A thread's utilsCloseResources found the long-running state set, cleared
\* it, cleared g_resourcesInit and returned.
C20_Witness ==
    \E t \in Threads :
        /\ res_pc[t] = "idle"
        /\ res_cleared[t]
        /\ g_resourcesMutex = 0
        /\ ~g_resourcesInit /\ ~g_longRunningProcess

\* A thread's call of utilsInitializeResources is at the end of its block,
\* the mutex still held, with the value `ret' it is going to return.
InitializeEnds(t) == res_pc[t] = "init_unlock"

\* C21 as amended: utilsInitializeResources returns the value g_resourcesInit
\* had when the call left its locked block (ret = g_resourcesInit there);
\* a call that finds the resources initialised has run no step and returns
\* true, leaving the flag alone; a call that returns true otherwise has run
\* every step of InitSteps, and g_resourcesInit becomes true at the last of
\* them only; a call in which a step failed has run fewer, returns false and
\* leaves g_resourcesInit false; and a call that finds the resources not
\* initialised, as after utilsCloseResources, starts at the first step.
C21_ReturnsFlagOfItsBlock ==
    /\ [](\A t \in Threads :
            InitializeEnds(t) =>
                /\ res_ret[t] <=> g_resourcesInit
                /\ res_ret[t] => res_step[t] \in {0, NumInitSteps}
                /\ ~res_ret[t] => res_step[t] < NumInitSteps)
    /\ [][\A t \in Threads :
            (LeaveLock(t) \/ InitializeReturn(t)) =>
                res_ret'[t] = res_ret[t]]_vars
    /\ [][\A t \in Threads :
            InitializeCheck(t) =>
                IF g_resourcesInit
                THEN /\ res_ret'[t] /\ res_step'[t] = 0
                     /\ res_pc'[t] = "init_unlock"
                     /\ g_resourcesInit'
                ELSE /\ res_pc'[t] = "init_steps" /\ res_step'[t] = 0
                     /\ ~g_resourcesInit']_vars
    /\ [][(~g_resourcesInit /\ g_resourcesInit') =>
            \E t \in Threads :
                /\ res_pc[t] = "init_steps"
                /\ res_step[t] = NumInitSteps - 1
                /\ res_step'[t] = NumInitSteps
                /\ res_ret'[t]]_vars
    /\ [][\A t \in Threads :
            (/\ res_pc[t] = "init_steps" /\ res_pc'[t] = "init_unlock"
             /\ res_step'[t] < NumInitSteps)
            => ~res_ret'[t] /\ ~g_resourcesInit']_vars

\* A thread whose utilsCloseResources closed initialised resources (it found
\* the long-running state set) has since called utilsInitializeResources,
\* which ran every step again and is going to return true.
C21_Witness ==
    \E t \in Threads :
        /\ InitializeEnds(t)
        /\ res_cleared[t]
        /\ res_ret[t] /\ res_step[t] = NumInitSteps
        /\ g_resourcesInit

\* C21 as claimed: utilsInitializeResources returns true if and only if
\* g_resourcesInit is true when it returns.
C21_ReturnsTheFlag ==
    \A t \in Threads :
        res_pc[t] = "init_return" => (res_ret[t] <=> g_resourcesInit)
====
